---- MODULE Spec2Model ----
(***************************************************************************)
(* Reflex (src/reflex.js): a virtual-tree engine.  h builds VNodes,        *)
(* createElement materializes a VNode as a live node, update reconciles    *)
(* the live children of a parent against a new and an old VNode tree.      *)
(*                                                                         *)
(* The live tree (the document) is a value: a node is a record, its        *)
(* identity is the field id, handed out by a counter at creation.  Every   *)
(* operator that touches the document threads a record st = [nid, ops,     *)
(* visits, err]: the next free identity, the log of document calls made so *)
(* far, the log of the calls of update with the branch each took, and the  *)
(* exception in flight ("none" while the call runs normally).              *)
(***************************************************************************)
EXTENDS Integers, Sequences, FiniteSets, TLC

\* Bounds of the explored inputs.
MaxChildren == 3
MaxCalls == 2

(***************************************************************************)
(* Strings the code inspects character by character are sequences of       *)
(* one-character strings.                                                  *)
(***************************************************************************)
N_title == <<"t", "i", "t", "l", "e">>
N_class == <<"c", "l", "a", "s", "s">>
N_className == <<"c", "l", "a", "s", "s", "N", "a", "m", "e">>
N_onClick == <<"o", "n", "C", "l", "i", "c", "k">>
N_forceUpdate == <<"f", "o", "r", "c", "e", "U", "p", "d", "a", "t", "e">>
N_newVal == <<"n", "e", "w", "V", "a", "l">>

UpperCase == <<"A", "B", "C", "D", "E", "F", "G", "H", "I", "J", "K", "L", "M",
               "N", "O", "P", "Q", "R", "S", "T", "U", "V", "W", "X", "Y", "Z">>
LowerCase == <<"a", "b", "c", "d", "e", "f", "g", "h", "i", "j", "k", "l", "m",
               "n", "o", "p", "q", "r", "s", "t", "u", "v", "w", "x", "y", "z">>

toLowerCase(s) ==
    [i \in DOMAIN s |->
        IF \E k \in DOMAIN UpperCase : UpperCase[k] = s[i]
        THEN LowerCase[CHOOSE k \in DOMAIN UpperCase : UpperCase[k] = s[i]]
        ELSE s[i]]

slice(s, from) == SubSeq(s, from + 1, Len(s))

(***************************************************************************)
(* JavaScript values held by props: a type tag and the text String(value)  *)
(* yields, which is what setAttribute stores.                              *)
(***************************************************************************)
StrV(s) == [t |-> "string", v |-> s]
NumV(s) == [t |-> "number", v |-> s]
BoolV(s) == [t |-> "boolean", v |-> s]
FnV(f) == [t |-> "function", v |-> f]
UndefV == [t |-> "undefined", v |-> "undefined"]

\* !value
Falsy(value) ==
    \/ value.t = "undefined"
    \/ value.t = "string" /\ value.v = ""
    \/ value.t = "number" /\ value.v = "0"
    \/ value.t = "boolean" /\ value.v = "false"

\* String(value), the conversion setAttribute applies
StringOf(value) == value.v

(***************************************************************************)
(* Props objects: the sequence of their entries in insertion order.        *)
(***************************************************************************)
Prop(name, value) == [name |-> name, value |-> value]

Keys(props) == [i \in DOMAIN props |-> props[i].name]

HasKey(props, name) == \E i \in DOMAIN props : props[i].name = name

\* props[name]
Get(props, name) ==
    IF HasKey(props, name)
    THEN props[CHOOSE i \in DOMAIN props : props[i].name = name].value
    ELSE UndefV

\* Object.assign({}, a, b)
Assign(a, b) ==
    [i \in DOMAIN a |-> Prop(a[i].name, IF HasKey(b, a[i].name) THEN Get(b, a[i].name) ELSE a[i].value)]
    \o SelectSeq(b, LAMBDA e : ~HasKey(a, e.name))

(***************************************************************************)
(* VNodes.  kind is what typeof gives.                                     *)
(***************************************************************************)
Undefined == [kind |-> "undefined"]
Str(s) == [kind |-> "string", value |-> s]

\* A call without props, or with null props, passes <<>> (props || {}).
h(type, props, children) ==
    [kind |-> "object", type |-> type, props |-> props, children |-> children]

TypeOf(node) == node.kind

\* !node
Not(node) == node.kind = "undefined" \/ (node.kind = "string" /\ node.value = "")

\* node.type, <<>> standing for undefined
TypeField(node) == IF node.kind = "object" THEN <<node.type>> ELSE <<>>

\* children[i] with i counted from 0
ChildVNode(node, i) ==
    IF node.kind = "object" /\ i + 1 \in DOMAIN node.children
    THEN node.children[i + 1] ELSE Undefined

(***************************************************************************)
(* Property classifier.                                                    *)
(***************************************************************************)
isEventProp(name) == Len(name) >= 2 /\ name[1] = "o" /\ name[2] = "n"

isCustomProp(name) == isEventProp(name) \/ name = N_forceUpdate

extractEventName(name) == toLowerCase(slice(name, 2))

(***************************************************************************)
(* The document.                                                           *)
(***************************************************************************)
NoNode == [nodeType |-> "undefined"]

TextNode(id, data) == [nodeType |-> "text", id |-> id, data |-> data]

Element(id, tagName) ==
    [nodeType |-> "element", id |-> id, tagName |-> tagName,
     attributes |-> {}, listeners |-> {}, childNodes |-> <<>>]

\* parent.childNodes[index]
ChildAt(parent, index) ==
    IF parent.nodeType = "element" /\ index + 1 \in DOMAIN parent.childNodes
    THEN parent.childNodes[index + 1] ELSE NoNode

Log(st, op) == [st EXCEPT !.ops = Append(@, op)]

Throw(st, e) == [st EXCEPT !.err = e]

Alloc(st) == [st EXCEPT !.nid = @ + 1]

\* st at the start of a call
Start(n) == [nid |-> n, ops |-> <<>>, visits |-> <<>>, err |-> "none"]

\* One call update(parent, newNode, oldNode, index) and the branch it takes:
\* parent is the identity of the parent (-1 for undefined), count the number
\* of children the parent has at that moment, target whether
\* parent.childNodes[index] exists.
Visit(st, branch, parent, newNode, oldNode, index) ==
    [st EXCEPT !.visits = Append(@,
        [branch |-> branch,
         parent |-> IF parent.nodeType = "undefined" THEN -1 ELSE parent.id,
         index |-> index,
         count |-> IF parent.nodeType = "element" THEN Len(parent.childNodes) ELSE 0,
         target |-> ChildAt(parent, index).nodeType # "undefined",
         newNode |-> newNode, oldNode |-> oldNode])]

setAttribute(target, name, value, st, src) ==
    [target |-> [target EXCEPT !.attributes =
                    {a \in @ : a[1] # name} \cup {<<name, StringOf(value)>>}],
     st |-> Log(st, [op |-> "setAttribute", src |-> src, node |-> target.id,
                     name |-> name, value |-> StringOf(value)])]

removeAttribute(target, name, st, src) ==
    [target |-> [target EXCEPT !.attributes = {a \in @ : a[1] # name}],
     st |-> Log(st, [op |-> "removeAttribute", src |-> src, node |-> target.id,
                     name |-> name])]

addEventListener(target, type, listener, st, src) ==
    [target |-> [target EXCEPT !.listeners = @ \cup {<<type, listener.v>>}],
     st |-> Log(st, [op |-> "addEventListener", src |-> src, node |-> target.id,
                     name |-> type, value |-> listener.v])]

appendChild(parent, child, st, src) ==
    [parent |-> [parent EXCEPT !.childNodes = Append(@, child)],
     st |-> Log(st, [op |-> "appendChild", src |-> src, parent |-> parent.id,
                     index |-> Len(parent.childNodes), node |-> child.id])]

removeChild(parent, index, st, src) ==
    [parent |-> [parent EXCEPT !.childNodes =
                    SubSeq(@, 1, index) \o SubSeq(@, index + 2, Len(@))],
     st |-> Log(st, [op |-> "removeChild", src |-> src, parent |-> parent.id,
                     index |-> index, node |-> parent.childNodes[index + 1].id])]

replaceChild(parent, child, index, st, src) ==
    [parent |-> [parent EXCEPT !.childNodes[index + 1] = child],
     st |-> Log(st, [op |-> "replaceChild", src |-> src, parent |-> parent.id,
                     index |-> index, node |-> child.id,
                     old |-> parent.childNodes[index + 1].id])]

(***************************************************************************)
(* Property reconciler.                                                    *)
(***************************************************************************)
\* setProp without the test for framework properties
setProp_noFilter(target, name, value, st, src) ==
    IF name = N_className THEN setAttribute(target, N_class, value, st, src)
    ELSE setAttribute(target, name, value, st, src)

setProp(target, name, value, st, src) ==
    IF isCustomProp(name) THEN [target |-> target, st |-> st]
    ELSE IF name = N_className THEN setAttribute(target, N_class, value, st, src)
    ELSE setAttribute(target, name, value, st, src)

removeProp(target, name, value, st, src) ==
    IF isCustomProp(name) THEN [target |-> target, st |-> st]
    ELSE IF name = N_className THEN removeAttribute(target, N_class, st, src)
    ELSE removeAttribute(target, name, st, src)

RECURSIVE setPropsFrom(_, _, _, _)
\* one step of the forEach: r is what setProp left
propSet(r, props, i) == setPropsFrom(r.target, props, i + 1, r.st)

setPropsFrom(target, props, i, st) ==
    IF i > Len(props) THEN [target |-> target, st |-> st]
    ELSE propSet(setProp(target, props[i].name, props[i].value, st, "createElement"),
                 props, i)

\* setProps leaving out the props whose value is falsy
setProps_skipFalsy(target, props, st) ==
    setPropsFrom(target, SelectSeq(props, LAMBDA e : ~Falsy(e.value)), 1, st)

setProps(target, props, st) == setPropsFrom(target, props, 1, st)

\* The identifiers in scope of updateProp's body: its parameters and the
\* bindings of the enclosing closure and of the script.
ScopeOfUpdateProp ==
    {<<"t", "a", "r", "g", "e", "t">>, <<"n", "a", "m", "e">>,
     <<"n", "e", "w", "V", "a", "l", "u", "e">>, <<"o", "l", "d", "V", "a", "l", "u", "e">>}

updateProp(target, name, newValue, oldValue, st) ==
    IF N_newVal \notin ScopeOfUpdateProp
    THEN [target |-> target, st |-> Throw(st, "ReferenceError")]
    ELSE IF Falsy(newValue) THEN removeProp(target, name, oldValue, st, "updateProps")
    ELSE IF Falsy(oldValue) \/ newValue # oldValue
         THEN setProp(target, name, newValue, st, "updateProps")
    ELSE [target |-> target, st |-> st]

RECURSIVE updatePropsFrom(_, _, _, _, _, _)
\* one step of the forEach: r is what updateProp left
propUpdated(r, names, newProps, oldProps, i) ==
    updatePropsFrom(r.target, names, newProps, oldProps, i + 1, r.st)

updatePropsFrom(target, names, newProps, oldProps, i, st) ==
    IF i > Len(names) \/ st.err # "none" THEN [target |-> target, st |-> st]
    ELSE propUpdated(updateProp(target, names[i], Get(newProps, names[i]),
                                Get(oldProps, names[i]), st),
                     names, newProps, oldProps, i)

RECURSIVE addEventListenersFrom(_, _, _, _)
\* one step of the forEach: r is what the step left
listenerAdded(r, props, i) == addEventListenersFrom(r.target, props, i + 1, r.st)

addEventListenersFrom(target, props, i, st) ==
    IF i > Len(props) THEN [target |-> target, st |-> st]
    ELSE listenerAdded(IF isEventProp(props[i].name)
                       THEN addEventListener(target, extractEventName(props[i].name),
                                             props[i].value, st, "createElement")
                       ELSE [target |-> target, st |-> st],
                       props, i)

addEventListeners(target, props, st) == addEventListenersFrom(target, props, 1, st)

\* what updateProps leaves: the target and st after the loop, and the two
\* props objects
AfterProps(r, newProps, oldProps) ==
    [target |-> r.target, st |-> r.st, newProps |-> newProps, oldProps |-> oldProps]

\* updateProps that subscribes the new handlers as well
updateProps_resubscribe(target, newProps, oldProps, st) ==
    AfterProps(
        IF target.nodeType = "element"
        THEN updatePropsFrom(addEventListeners(target, newProps, st).target,
                             Keys(Assign(newProps, oldProps)), newProps, oldProps, 1,
                             addEventListeners(target, newProps, st).st)
        ELSE updatePropsFrom(target, Keys(Assign(newProps, oldProps)), newProps, oldProps, 1, st),
        newProps, oldProps)

\* updateProps merging into newProps: Object.assign(newProps, oldProps)
updateProps_assignInPlace(target, newProps, oldProps, st) ==
    AfterProps(updatePropsFrom(target, Keys(Assign(newProps, oldProps)),
                               Assign(newProps, oldProps), oldProps, 1, st),
               Assign(newProps, oldProps), oldProps)

\* Returns the target, st, and the two props objects as the call leaves them.
updateProps(target, newProps, oldProps, st) ==
    AfterProps(updatePropsFrom(target, Keys(Assign(newProps, oldProps)),
                               newProps, oldProps, 1, st),
               newProps, oldProps)

(***************************************************************************)
(* Materializer.                                                           *)
(***************************************************************************)
RECURSIVE createElement(_, _)
RECURSIVE mapCreateElement(_, _, _, _)
RECURSIVE appendAll(_, _, _, _)

\* one step of node.children.map(createElement): r is the child just created
mapCreated(children, i, els, r) == mapCreateElement(children, i + 1, Append(els, r.el), r.st)

\* node.children.map(createElement)
mapCreateElement(children, i, els, st) ==
    IF i > Len(children) \/ st.err # "none" THEN [els |-> els, st |-> st]
    ELSE mapCreated(children, i, els, createElement(children[i], st))

\* one step of the forEach: a is what appendChild left
appended(a, els, i) == appendAll(a.parent, els, i + 1, a.st)

\* .forEach(el.appendChild.bind(el))
appendAll(el, els, i, st) ==
    IF i > Len(els) THEN [el |-> el, st |-> st]
    ELSE appended(appendChild(el, els[i], st, "createElement"), els, i)

\* addEventListeners(el, node.props), p being what setProps left
listenersOn(p, props) == addEventListeners(p.target, props, p.st)

\* the children of el appended, m being what the map left
childrenOn(el, m) == appendAll(el, m.els, 1, m.st)

\* the children created and appended, l being what addEventListeners left
withChildren(l, children) ==
    childrenOn(l.target, mapCreateElement(children, 1, <<>>, l.st))

createElement(node, st) ==
    IF TypeOf(node) = "string"
    THEN [el |-> TextNode(st.nid, node.value), st |-> Alloc(st)]
    ELSE IF TypeOf(node) = "undefined"
    THEN [el |-> NoNode, st |-> Throw(st, "TypeError")]
    ELSE withChildren(
             listenersOn(setProps(Element(st.nid, node.type), node.props, Alloc(st)),
                         node.props),
             node.children)

(***************************************************************************)
(* Tree reconciler.                                                        *)
(***************************************************************************)
\* changed comparing two elements by their whole content
changed_deep(node1, node2) ==
    \/ TypeOf(node1) # TypeOf(node2)
    \/ node1 # node2

changed(node1, node2) ==
    \/ TypeOf(node1) # TypeOf(node2)
    \/ (TypeOf(node1) = "string" /\ node1 # node2)
    \/ TypeField(node1) # TypeField(node2)

\* parent with its child at index put back after the calls made on it
PutChild(parent, index, child) ==
    IF child.nodeType = "undefined" THEN parent
    ELSE [parent EXCEPT !.childNodes[index + 1] = child]

\* What a call of update hands back: the parent, st, and the two VNodes as
\* the call leaves them.
Ret(p, s, n, o) == [parent |-> p, st |-> s, newNode |-> n, oldNode |-> o]

\* the same, a being what a document call on the parent left
RetDone(a, n, o) == Ret(a.parent, a.st, n, o)

RECURSIVE update(_, _, _, _, _)
RECURSIVE updateChildren(_, _, _, _, _)

\* the append branch skipping a falsy newNode
updateAppend_skipFalsy(parent, newNode, oldNode, index, st) ==
    IF Not(newNode) THEN Ret(parent, st, newNode, oldNode)
    ELSE RetDone(appendChild(parent, createElement(newNode, st).el,
                             createElement(newNode, st).st, "update"),
                 newNode, oldNode)

\* parent.appendChild(c), c being what createElement(newNode) left
appendCreated(parent, c, newNode, oldNode) ==
    IF c.st.err # "none" THEN Ret(parent, c.st, newNode, oldNode)
    ELSE IF parent.nodeType = "text"
    THEN Ret(parent, Throw(c.st, "HierarchyRequestError"), newNode, oldNode)
    ELSE RetDone(appendChild(parent, c.el, c.st, "update"), newNode, oldNode)

\* parent.appendChild(createElement(newNode))
updateAppend(parent, newNode, oldNode, index, st) ==
    IF parent.nodeType = "undefined" THEN Ret(parent, Throw(st, "TypeError"), newNode, oldNode)
    ELSE appendCreated(parent, createElement(newNode, st), newNode, oldNode)

\* parent.removeChild(parent.childNodes[index])
updateRemove(parent, newNode, oldNode, index, st) ==
    IF ChildAt(parent, index).nodeType = "undefined"
    THEN Ret(parent, Throw(st, "TypeError"), newNode, oldNode)
    ELSE RetDone(removeChild(parent, index, st, "update"), newNode, oldNode)

\* parent.replaceChild(c, parent.childNodes[index]), c being what
\* createElement(newNode) left
replaceCreated(parent, c, newNode, oldNode, index) ==
    IF c.st.err # "none" THEN Ret(parent, c.st, newNode, oldNode)
    ELSE IF ChildAt(parent, index).nodeType = "undefined"
    THEN Ret(parent, Throw(c.st, "TypeError"), newNode, oldNode)
    ELSE RetDone(replaceChild(parent, c.el, index, c.st, "update"), newNode, oldNode)

\* parent.replaceChild(createElement(newNode), parent.childNodes[index])
updateReplace(parent, newNode, oldNode, index, st) ==
    IF parent.nodeType = "undefined" THEN Ret(parent, Throw(st, "TypeError"), newNode, oldNode)
    ELSE replaceCreated(parent, createElement(newNode, st), newNode, oldNode, index)

\* i++ after the call of update for child i, r being what that call left
nextChild(r, newNode, oldNode, i) ==
    updateChildren(r.parent,
        IF i < Len(newNode.children)
        THEN [newNode EXCEPT !.children[i + 1] = r.newNode] ELSE newNode,
        IF i < Len(oldNode.children)
        THEN [oldNode EXCEPT !.children[i + 1] = r.oldNode] ELSE oldNode,
        i + 1, r.st)

\* the for loop of update: target is parent.childNodes[index]
updateChildren(target, newNode, oldNode, i, st) ==
    IF st.err # "none" \/ ~(i < Len(newNode.children) \/ i < Len(oldNode.children))
    THEN Ret(target, st, newNode, oldNode)
    ELSE nextChild(update(target, ChildVNode(newNode, i), ChildVNode(oldNode, i), i, st),
                   newNode, oldNode, i)

\* the end of the in-place branch, r being what the loop left
loopDone(parent, index, r) ==
    Ret(PutChild(parent, index, r.parent), r.st, r.newNode, r.oldNode)

\* the loop over the children, p being what updateProps left
childLoop(parent, index, p, newNode, oldNode) ==
    loopDone(parent, index,
             updateChildren(p.target, [newNode EXCEPT !.props = p.newProps],
                            [oldNode EXCEPT !.props = p.oldProps], 0, p.st))

\* updateProps on parent.childNodes[index], then the loop over the children
updateInPlace(parent, newNode, oldNode, index, st) ==
    IF parent.nodeType = "undefined" THEN Ret(parent, Throw(st, "TypeError"), newNode, oldNode)
    ELSE childLoop(parent, index,
                   updateProps(ChildAt(parent, index), newNode.props, oldNode.props, st),
                   newNode, oldNode)

update(parent, newNode, oldNode, index, st) ==
    IF Not(oldNode)
    THEN updateAppend(parent, newNode, oldNode, index,
                      Visit(st, "append", parent, newNode, oldNode, index))
    ELSE IF Not(newNode)
    THEN updateRemove(parent, newNode, oldNode, index,
                      Visit(st, "remove", parent, newNode, oldNode, index))
    ELSE IF changed(newNode, oldNode)
    THEN updateReplace(parent, newNode, oldNode, index,
                       Visit(st, "replace", parent, newNode, oldNode, index))
    ELSE IF TypeField(newNode) # <<>> /\ newNode.type # ""
    THEN updateInPlace(parent, newNode, oldNode, index,
                       Visit(st, "inplace", parent, newNode, oldNode, index))
    ELSE Ret(parent, Visit(st, "none", parent, newNode, oldNode, index), newNode, oldNode)

(***************************************************************************)
(* Inputs: the VNode trees a caller passes.                                *)
(***************************************************************************)
\* Child lists of texts, the empty text among them.
TextPool == {Str("x"), Str("")}

ChildLists == UNION {[1..n -> TextPool] : n \in 0..MaxChildren}

XLists == UNION {[1..n -> {Str("x")}] : n \in 0..MaxChildren}

Tags == {"div", "span"}

PropsPool ==
    {<<>>,
     <<Prop(N_title, StrV("a"))>>,
     <<Prop(N_title, StrV(""))>>,
     <<Prop(N_onClick, FnV("fn1"))>>,
     <<Prop(N_onClick, FnV("fn2"))>>,
     <<Prop(N_className, StrV("c")), Prop(N_forceUpdate, BoolV("true")),
       Prop(N_title, NumV("0"))>>}

Trees ==
    TextPool
    \cup {h("div", <<>>, c) : c \in ChildLists}
    \cup {h("div", <<>>, <<h("div", <<>>, c)>>) : c \in XLists}
    \cup {h("div", <<>>, <<s, h(t, <<>>, <<>>)>>) : s \in TextPool, t \in Tags}
    \cup {h(t, p, <<>>) : t \in Tags, p \in PropsPool}
    \cup {h("span", <<>>, <<Str("x")>>)}
    \cup {h("div", p, <<Str("a"), Str("b")>>) : p \in {<<>>, <<Prop(N_title, StrV("a"))>>}}
    \cup {h("div", p, <<Str("x"), Str("a"), Str("b")>>) :
             p \in {<<>>, <<Prop(N_title, StrV("a"))>>}}
    \cup {h("div", <<>>, <<h("span", <<>>, <<>>), Str(""), Str("x")>>)}

(***************************************************************************)
(* The caller: document.body, the tree it rendered last, and its calls of  *)
(* update(document.body, newNode, oldNode) with the index left to default. *)
(***************************************************************************)
VARIABLES body, initial, rendered, status, ops, visits, nid, lastNew, lastOld, oldAfter,
          prevBody, hist

vars == <<body, initial, rendered, status, ops, visits, nid, lastNew, lastOld, oldAfter,
          prevBody, hist>>

\* document.body as the page provides it: identity 0, possibly holding a
\* child the engine did not create (identity 1).
Body(children) == [Element(0, "body") EXCEPT !.childNodes = children]

Foreign == Element(1, "p")

\* body: the live tree.  initial: body as the page provided it.  rendered: the
\* tree the caller keeps for the next call.  status, ops, visits, lastNew,
\* lastOld, oldAfter, prevBody: the outcome, the document calls, the calls of
\* update, the arguments (as passed, and the old one as left) and the live
\* tree before, of the last call.  hist: the calls made so far.
Init ==
    /\ body \in {Body(<<>>), Body(<<Foreign>>)}
    /\ initial = body
    /\ rendered = Undefined
    /\ status = "none"
    /\ ops = <<>>
    /\ visits = <<>>
    /\ nid = 2
    /\ lastNew = Undefined
    /\ lastOld = Undefined
    /\ oldAfter = Undefined
    /\ prevBody = body
    /\ hist = <<>>

\* the caller's state after a call that left r
Returned(r, newNode, oldNode, what) ==
    /\ body' = r.parent
    /\ status' = r.st.err
    /\ ops' = r.st.ops
    /\ visits' = r.st.visits
    /\ nid' = r.st.nid
    /\ rendered' = r.newNode
    /\ oldAfter' = r.oldNode
    /\ lastNew' = newNode
    /\ lastOld' = oldNode
    /\ prevBody' = body
    /\ hist' = Append(hist, what)
    /\ UNCHANGED initial

\* update(document.body, newNode, oldNode)
Call(newNode, oldNode, what) ==
    Returned(update(body, newNode, oldNode, 0, Start(nid)),
             newNode, oldNode, what)

\* A caller goes on while no call has thrown.
CanCall == status = "none" /\ Len(hist) < MaxCalls

\* first render: update(document.body, T)
Render(T) ==
    /\ CanCall
    /\ rendered = Undefined
    /\ Call(T, Undefined, "render")

\* re-render: update(document.body, T, previous tree)
Update(T) ==
    /\ CanCall
    /\ rendered # Undefined
    /\ Call(T, rendered, "update")

\* removal: update(document.body, undefined, previous tree)
Remove ==
    /\ CanCall
    /\ rendered # Undefined
    /\ Call(Undefined, rendered, "remove")

Next ==
    \/ \E T \in Trees : Render(T)
    \/ \E T \in Trees : Update(T)
    \/ Remove

Spec == Init /\ [][Next]_vars

(***************************************************************************)
(* Vocabulary of the properties.                                           *)
(***************************************************************************)
RECURSIVE Strip(_)
\* a live node without the identities
Strip(node) ==
    IF node.nodeType = "element"
    THEN [nodeType |-> "element", tagName |-> node.tagName,
          attributes |-> node.attributes, listeners |-> node.listeners,
          childNodes |-> [i \in DOMAIN node.childNodes |-> Strip(node.childNodes[i])]]
    ELSE IF node.nodeType = "text" THEN [nodeType |-> "text", data |-> node.data]
    ELSE node

RECURSIVE Shape(_)
\* tag names, text contents, child count and order
Shape(node) ==
    IF node.nodeType = "element"
    THEN [tagName |-> node.tagName,
          childNodes |-> [i \in DOMAIN node.childNodes |-> Shape(node.childNodes[i])]]
    ELSE IF node.nodeType = "text" THEN [data |-> node.data]
    ELSE node

RECURSIVE Nodes(_)
\* the nodes of a live subtree
Nodes(node) ==
    IF node.nodeType = "element"
    THEN {node} \cup UNION {Nodes(node.childNodes[i]) : i \in DOMAIN node.childNodes}
    ELSE {node}

Ids(node) == {n.id : n \in Nodes(node)}

\* createElement(T) on its own
Materialize(T) == createElement(T, Start(0)).el

RECURSIVE Plain(_)
\* a tree without props and without empty texts
Plain(node) ==
    IF node.kind = "object"
    THEN node.props = <<>> /\ \A i \in DOMAIN node.children : Plain(node.children[i])
    ELSE node.kind = "string" /\ node.value # ""

FromEmpty == initial = Body(<<>>)

\* T0 rendered, then every call passing the tree rendered before as old
Rerendered ==
    /\ Len(hist) >= 2
    /\ hist[1] = "render"
    /\ \A k \in 2..Len(hist) : hist[k] = "update"

\* the last call patched the root element in place
RootKept ==
    /\ FromEmpty /\ hist = <<"render", "update">>
    /\ lastNew.kind = "object" /\ lastOld.kind = "object"
    /\ lastNew.type = lastOld.type

\* the structural calls update itself made, as <<operation, index>>
StructuralOps ==
    LET u == SelectSeq(ops, LAMBDA o : o.src = "update")
    IN  [k \in DOMAIN u |-> <<u[k].op, u[k].index>>]

AttrName(name) == IF name = N_className THEN N_class ELSE name

\* the child at index i of after is a fresh materialization of vnode
Replaced(before, after, i, vnode) ==
    /\ ChildAt(after, i).nodeType # "undefined"
    /\ Strip(ChildAt(after, i)) = Strip(Materialize(vnode))
    /\ ChildAt(after, i).id \notin Ids(before)

\* a key the engine keeps to itself: an event key or forceUpdate
FrameworkKey(name) ==
    \/ Len(name) >= 2 /\ SubSeq(name, 1, 2) = <<"o", "n">>
    \/ name = N_forceUpdate

\* the event an event key subscribes to
EventOf(name) == CASE name = N_onClick -> <<"c", "l", "i", "c", "k">>

AttributesOf(props) ==
    {<<AttrName(props[i].name), StringOf(props[i].value)>> :
        i \in {j \in DOMAIN props : ~FrameworkKey(props[j].name)}}

SubscriptionsOf(props) ==
    {<<EventOf(props[i].name), props[i].value.v>> :
        i \in {j \in DOMAIN props : Len(props[j].name) >= 2
                                      /\ SubSeq(props[j].name, 1, 2) = <<"o", "n">>}}

RECURSIVE NodeOf(_)
\* the node a VNode describes, without identities
NodeOf(node) ==
    IF node.kind = "string" THEN [nodeType |-> "text", data |-> node.value]
    ELSE [nodeType |-> "element", tagName |-> node.type,
          attributes |-> AttributesOf(node.props),
          listeners |-> SubscriptionsOf(node.props),
          childNodes |-> [i \in DOMAIN node.children |-> NodeOf(node.children[i])]]

\* the attribute of name on a live element, <<>> when it has none
AttrValues(el, name) == {a[2] : a \in {b \in el.attributes : b[1] = name}}

\* the pairs of VNodes the last call compared: the roots and their children
VNodePairs ==
    {p \in {<<lastNew, lastOld>>}
            \cup {<<ChildVNode(lastNew, i), ChildVNode(lastOld, i)>> : i \in 0..MaxChildren} :
        p[1].kind # "undefined" /\ p[2].kind # "undefined"}

\* the indexes at which update was called on the children of the root
\* element, in the order of the calls
RootChildVisits ==
    LET v == SelectSeq(visits, LAMBDA e : e.parent = ChildAt(prevBody, 0).id)
    IN  [k \in DOMAIN v |-> v[k].index]

MaxOf(a, b) == IF a >= b THEN a ELSE b

(***************************************************************************)
(* Properties.                                                             *)
(***************************************************************************)

\* C1: from an empty parent, after T0 is rendered and each later tree is
\* reconciled against the one before, the live child at index 0 has the tags,
\* texts, child count and child order of createElement(Tn); stated here for
\* the case the claim singles out, a child list of the root that shrinks by
\* two or more entries, on trees without props or empty texts.
C1_Convergence ==
    (/\ FromEmpty /\ Rerendered
     /\ Plain(lastNew) /\ Plain(lastOld)
     /\ lastNew.kind = "object" /\ lastOld.kind = "object"
     /\ lastNew.type = lastOld.type
     /\ Len(lastOld.children) >= Len(lastNew.children) + 2)
    => /\ Len(body.childNodes) >= 1
       /\ Shape(body.childNodes[1]) = Shape(Materialize(lastNew))

\* C2: update(parent, T, T) on the rendering of an element tree T makes no
\* document call at all and leaves the live tree as it was.
C2_Idempotence ==
    (/\ FromEmpty /\ hist = <<"render", "update">>
     /\ lastNew = lastOld /\ lastNew.kind = "object")
    => /\ ops = <<>>
       /\ body = prevBody

\* C3: update(parent, T, undefined) on an empty parent returns normally and
\* leaves exactly one child, equal to createElement(T) in tags, attributes,
\* texts, children and subscriptions.
C3_InitialMaterialization ==
    (FromEmpty /\ hist = <<"render">>)
    => /\ status = "none"
       /\ Len(body.childNodes) = 1
       /\ Strip(body.childNodes[1]) = Strip(Materialize(lastNew))

C3_Witness ==
    /\ FromEmpty /\ hist = <<"render">>
    /\ lastNew.kind = "object" /\ lastNew.props # <<>> /\ Len(lastNew.children) = 3
    /\ Len(body.childNodes) = 1
    /\ Len(body.childNodes[1].childNodes) = 3

\* C4: after update(parent, T, undefined) and then update(parent, undefined, T)
\* for an element tree T, the node rendered for T is gone and the parent holds
\* the children it held before, unchanged.
C4_FullRemoval ==
    (hist = <<"render", "remove">> /\ lastOld.kind = "object")
    => /\ status = "none"
       /\ body = initial

\* C5: where the old and the new VNode of a position are elements of different
\* type (the root, or a child of a root kept in place), the live child at that
\* index is afterwards a fresh materialization of the new VNode: new tag, only
\* the new attributes, subscriptions and children, and a new identity.
C5_TypeChangeReplaces ==
    (/\ FromEmpty /\ hist = <<"render", "update">>
     /\ lastNew.kind = "object" /\ lastOld.kind = "object")
    => /\ lastNew.type # lastOld.type => Replaced(prevBody, body, 0, lastNew)
       /\ lastNew.type = lastOld.type =>
            \A i \in 0..(MaxChildren + 1) :
                (/\ ChildVNode(lastNew, i).kind = "object"
                 /\ ChildVNode(lastOld, i).kind = "object"
                 /\ ChildVNode(lastNew, i).type # ChildVNode(lastOld, i).type)
                => Replaced(prevBody, ChildAt(body, 0), i, ChildVNode(lastNew, i))

\* C6: when an element is kept in place and a non-framework property that
\* the old props set has a falsy value in the new props, update returns normally and the live node has
\* no attribute for that property.
C6_FalsyValueRemoved ==
    RootKept =>
        \A k \in DOMAIN lastNew.props :
            (/\ ~isCustomProp(lastNew.props[k].name)
             /\ Falsy(lastNew.props[k].value)
             /\ ~Falsy(Get(lastOld.props, lastNew.props[k].name)))
            => /\ status = "none"
               /\ \A a \in ChildAt(body, 0).attributes :
                      a[1] # AttrName(lastNew.props[k].name)

\* C7: for an element kept in place with old children [A, B] and new children
\* [X, A, B], pairwise changed, update makes exactly replaceChild at 0,
\* replaceChild at 1, appendChild at 2, in this order, and the live children
\* are the materializations of X, A, B.
C7_PositionalMisalignment ==
    (/\ RootKept
     /\ Len(lastOld.children) = 2 /\ Len(lastNew.children) = 3
     /\ lastNew.children[2] = lastOld.children[1]
     /\ lastNew.children[3] = lastOld.children[2]
     /\ changed(lastNew.children[1], lastNew.children[2])
     /\ changed(lastNew.children[2], lastNew.children[3])
     /\ changed(lastNew.children[1], lastNew.children[3]))
    => /\ StructuralOps = << <<"replaceChild", 0>>, <<"replaceChild", 1>>, <<"appendChild", 2>> >>
       /\ Len(ChildAt(body, 0).childNodes) = 3
       /\ \A i \in 1..3 :
             Strip(ChildAt(body, 0).childNodes[i]) = Strip(Materialize(lastNew.children[i]))

\* C8: addEventListener is called only by createElement, on the node it is
\* creating; a call of update leaves the subscriptions of every live node it
\* keeps as they were, and makes no attribute call for an event property.
C8_ListenersFromMaterializeOnly ==
    /\ \A k \in DOMAIN ops :
          ops[k].op = "addEventListener"
          => ops[k].src = "createElement" /\ ops[k].node \notin Ids(prevBody)
    /\ \A k \in DOMAIN ops :
          ops[k].op \in {"setAttribute", "removeAttribute"} => ~isEventProp(ops[k].name)
    /\ \A n \in Nodes(body), m \in Nodes(prevBody) :
          (n.id = m.id /\ m.nodeType = "element") => n.listeners = m.listeners

C8_Witness ==
    /\ RootKept
    /\ lastOld.props = <<Prop(N_onClick, FnV("fn1"))>>
    /\ lastNew.props = <<Prop(N_onClick, FnV("fn2"))>>
    /\ ChildAt(body, 0).listeners = {<<toLowerCase(<<"C", "l", "i", "c", "k">>), "fn1">>}

\* C9: no live node ever has an attribute whose name starts with "on", or is
\* "forceUpdate", or is "className", no attribute call is made under such a
\* name, and setProp and removeProp leave every live element as it is when
\* given a framework property.
C9_FrameworkPropsNeverRendered ==
    LET Rendered(name) ==
            /\ ~(Len(name) >= 2 /\ SubSeq(name, 1, 2) = <<"o", "n">>)
            /\ name # N_forceUpdate
            /\ name # N_className
        St == Start(nid)
    IN  /\ \A n \in Nodes(body) :
              n.nodeType = "element" => \A a \in n.attributes : Rendered(a[1])
        /\ \A k \in DOMAIN ops :
              ops[k].op \in {"setAttribute", "removeAttribute"} => Rendered(ops[k].name)
        /\ \A n \in Nodes(body), name \in {N_onClick, N_forceUpdate} :
              n.nodeType = "element" =>
                  /\ setProp(n, name, FnV("fn2"), St, "update") = [target |-> n, st |-> St]
                  /\ removeProp(n, name, FnV("fn1"), St, "update") = [target |-> n, st |-> St]

C9_Witness ==
    /\ hist # <<>>
    /\ lastNew.kind = "object"
    /\ HasKey(lastNew.props, N_forceUpdate) /\ HasKey(lastNew.props, N_className)
    /\ \E n \in Nodes(body) :
          n.nodeType = "element" /\ <<N_class, "c">> \in n.attributes

\* C10: a call of update leaves the new and the old VNode tree equal, at every
\* depth, to what the caller passed.
C10_VNodesImmutable ==
    hist # <<>> => (rendered = lastNew /\ oldAfter = lastOld)

C10_Witness ==
    /\ RootKept
    /\ lastNew.props # <<>> /\ lastOld.props # <<>> /\ lastNew.props # lastOld.props
    /\ rendered = lastNew

\* C11: when an element rendered from the old props is kept in place, update
\* returns normally and, for every non-framework key of the old or the new
\* props, the live node has the attribute of that key ("class" for className)
\* with the new value iff the new value is truthy and has none otherwise,
\* and no attribute call is made for a key whose value is truthy and unchanged.
C11_PropsReconciled ==
    (RootKept /\ Assign(lastNew.props, lastOld.props) # <<>>)
    => /\ status = "none"
       /\ \A k \in DOMAIN Assign(lastNew.props, lastOld.props) :
             LET name == Assign(lastNew.props, lastOld.props)[k].name
                 newValue == Get(lastNew.props, name)
                 oldValue == Get(lastOld.props, name)
             IN  ~FrameworkKey(name) =>
                   /\ AttrValues(ChildAt(body, 0), AttrName(name))
                        = IF Falsy(newValue) THEN {} ELSE {StringOf(newValue)}
                   /\ (newValue = oldValue /\ ~Falsy(newValue)) =>
                         \A j \in DOMAIN ops :
                             ops[j].op \in {"setAttribute", "removeAttribute"}
                             => ops[j].name # AttrName(name)

\* C12: in a call of update on the rendering of the old tree, every call of
\* update that removes, replaces or patches in place finds
\* parent.childNodes[index] an existing live child; stated here for the case
\* the claim singles out, a child list of the root that shrinks by two or
\* more entries, on trees without props or empty texts.
C12_TargetsExist ==
    (/\ RootKept
     /\ Plain(lastNew) /\ Plain(lastOld)
     /\ Len(lastOld.children) >= Len(lastNew.children) + 2)
    => \A k \in DOMAIN visits :
          visits[k].branch \in {"remove", "replace", "inplace"} => visits[k].target

\* C13: every call of update appends iff the old VNode is undefined, removes
\* iff the new VNode is undefined and the old one is not, replaces iff both
\* are defined and changed, patches in place iff both are defined, unchanged
\* and elements; a text, the empty one included, is defined.
C13_CaseSelection ==
    \A k \in DOMAIN visits :
        LET newNode == visits[k].newNode
            oldNode == visits[k].oldNode
            present == newNode.kind # "undefined" /\ oldNode.kind # "undefined"
        IN  /\ visits[k].branch = "append" <=> oldNode.kind = "undefined"
            /\ visits[k].branch = "remove"
                 <=> (newNode.kind = "undefined" /\ oldNode.kind # "undefined")
            /\ visits[k].branch = "replace" <=> (present /\ changed(newNode, oldNode))
            /\ visits[k].branch = "inplace"
                 <=> (present /\ ~changed(newNode, oldNode) /\ newNode.kind = "object")

\* C14: when the child list of an element kept in place grows, every append
\* made for its child position i finds the live element with exactly i
\* children.
C14_AppendAtPosition ==
    (RootKept /\ Len(lastNew.children) > Len(lastOld.children))
    => \A k \in DOMAIN visits :
          (visits[k].branch = "append" /\ visits[k].parent = ChildAt(prevBody, 0).id)
          => visits[k].count = visits[k].index

\* C15: when the child list of an element kept in place shrinks from k to m
\* entries, the element keeps its identity, its live children at the indexes
\* below m whose VNodes are unchanged keep their identity and index, and
\* exactly its live children at the indexes m..k-1 are gone; stated on trees
\* without props or empty texts.
C15_Persistence ==
    (/\ RootKept
     /\ Plain(lastNew) /\ Plain(lastOld)
     /\ Len(lastOld.children) > Len(lastNew.children))
    => LET before == ChildAt(prevBody, 0)
           after == ChildAt(body, 0)
       IN  /\ after.id = before.id
           /\ Len(after.childNodes) = Len(lastNew.children)
           /\ \A j \in 1..Len(lastNew.children) :
                  ~changed(lastNew.children[j], lastOld.children[j])
                  => /\ j \in DOMAIN after.childNodes
                     /\ after.childNodes[j].id = before.childNodes[j].id
           /\ \A j \in (Len(lastNew.children) + 1)..Len(lastOld.children) :
                  before.childNodes[j].id \notin Ids(body)

\* C16: createElement of a VNode, as the first render applies it, gives a
\* text node holding the string, or an element with the tag of the VNode, one
\* attribute per non-framework prop (className under "class", the value as
\* given even when falsy), one subscription per event prop, none for
\* forceUpdate, and the createElement of each child in order; the nodes are
\* new and no node that existed before is touched.
C16_Materialization ==
    hist = <<"render">>
    => /\ status = "none"
       /\ Len(body.childNodes) = Len(prevBody.childNodes) + 1
       /\ Strip(body.childNodes[Len(body.childNodes)]) = NodeOf(lastNew)
       /\ Ids(body.childNodes[Len(body.childNodes)]) \cap Ids(prevBody) = {}
       /\ [body EXCEPT !.childNodes = SubSeq(@, 1, Len(@) - 1)] = prevBody
       /\ \A k \in DOMAIN ops :
              ops[k].src = "createElement" =>
                  /\ ops[k].op \in {"setAttribute", "addEventListener"}
                       => ops[k].node \notin Ids(prevBody)
                  /\ ops[k].op = "appendChild" => ops[k].parent \notin Ids(prevBody)

C16_Witness ==
    /\ hist = <<"render">>
    /\ initial = Body(<<Foreign>>)
    /\ lastNew.kind = "object"
    /\ HasKey(lastNew.props, N_className) /\ HasKey(lastNew.props, N_forceUpdate)
    /\ Falsy(Get(lastNew.props, N_title))
    /\ body.childNodes[2].attributes = {<<N_class, "c">>, <<N_title, "0">>}

\* C17: for the defined VNodes a and b a call of update compares, changed(a, b)
\* holds iff exactly one is a string, or both are strings of different
\* content, or both are elements of different type; it does not hold for
\* elements of equal type whatever their props and children, and
\* changed(a, b) = changed(b, a).
C17_ChangeDetection ==
    \A p \in VNodePairs :
        /\ changed(p[1], p[2])
             <=> \/ (p[1].kind = "string") # (p[2].kind = "string")
                 \/ p[1].kind = "string" /\ p[2].kind = "string"
                    /\ p[1].value # p[2].value
                 \/ p[1].kind = "object" /\ p[2].kind = "object"
                    /\ p[1].type # p[2].type
        /\ changed(p[1], p[2]) <=> changed(p[2], p[1])

C17_Witness ==
    /\ hist = <<"render", "update">>
    /\ lastNew.kind = "object" /\ lastOld.kind = "object"
    /\ lastNew.type = lastOld.type
    /\ lastNew.props # lastOld.props
    /\ lastNew.children # lastOld.children
    /\ ~changed(lastNew, lastOld)

\* C18: a call of update on the rendering of the old tree that keeps the root
\* element in place returns normally, having called update for each child
\* position 0..max(new length, old length)-1 of the root once, in ascending
\* order.
C18_ReturnsNormally ==
    RootKept
    => /\ status = "none"
       /\ RootChildVisits
            = [i \in 1..MaxOf(Len(lastNew.children), Len(lastOld.children)) |-> i - 1]

====
